---- MODULE Spec2Model ----
(***************************************************************************)
(* A model of package huff (src/huff.go): canonical Huffman codes built    *)
(* from symbol counts, the varint codebook, and symbol-level writing and   *)
(* reading over a bit stream.                                              *)
(*                                                                         *)
(* Go slices are sequences: slot i of a slice is element i+1 here.         *)
(*                                                                         *)
(* uint32 values are held as the 32-bit pattern read as a two's-complement *)
(* integer (TLC evaluates over 32-bit integers): 0..2^31-1 are             *)
(* themselves and 2^31..2^32-1 are v - 2^32, so 0xFFFFFFFF is -1.  ULt is  *)
(* the unsigned order on patterns.                                         *)
(***************************************************************************)
EXTENDS Integers, Sequences, FiniteSets, TLC

\* Bounds of the explored inputs.
MaxSyms == 3
MaxCount == 1
MaxWrites == 2
MaxWritesIO == 3
MaxBuildSyms == 3
MaxBuildCount == 2
MaxCbLen == 5
MaxData == 1
MaxCloses == 2

\* var EOF uint32 = 0xffffffff
EOF == -1

\* the pattern of low31 + 2^31, for 0 <= low31 < 2^31
TopBit(low31) == (low31 - 2147483647) - 1

Nil == "nil"
NoErr == "nil"
ErrUnknownSymbol == "huff: unknown symbol"
ErrInvalidCodebook == "huff: invalid codebook"
ErrIOEOF == "EOF"
ErrSink == "sink: write failed"

-----------------------------------------------------------------------------
(* 32-bit unsigned arithmetic on patterns *)

\* a < b for uint32
ULt(a, b) == IF (a < 0) = (b < 0) THEN a < b ELSE b < 0

\* a - b for uint32 (wraps); exact whenever the signed difference fits
Sub32(a, b) == a - b

\* x << 1 for uint32
Dbl32(x) ==
  LET low31 == IF x >= 0 THEN x ELSE (x + 2147483647) + 1
      low30 == low31 % 1073741824
  IN  IF low31 < 1073741824 THEN 2 * low30 ELSE TopBit(2 * low30)

\* x << k for uint32 (0 once k reaches the width)
RECURSIVE Shl32(_, _)
Shl32(x, k) ==
  IF k >= 32 \/ x = 0 THEN 0
  ELSE IF k <= 0 THEN x
  ELSE Shl32(Dbl32(x), k - 1)

RECURSIVE Pow2(_)
Pow2(k) == IF k = 0 THEN 1 ELSE 2 * Pow2(k - 1)

-----------------------------------------------------------------------------
(* type symbol, type codebook *)

Symbol(s, code, length) == [s |-> s, code |-> code, length |-> length]

ZeroSymbol == Symbol(0, 0, 0)

\* symptrs.Less with the length left out of the order
SymLess_BySymbol(a, b) == ULt(a.s, b.s)

\* symptrs.Less
SymLess(a, b) ==
  a.length < b.length \/ (a.length = b.length /\ ULt(a.s, b.s))

\* sort.Sort(sptrs): Less is a strict total order on the entries (their s
\* differ), so the sorted slice is the one ordering of the set.
RECURSIVE SortSyms(_)
SortSyms(S) ==
  IF S = {} THEN <<>>
  ELSE LET lo == CHOOSE a \in S : \A b \in S \ {a} : SymLess(a, b)
       IN  <<lo>> \o SortSyms(S \ {lo})

\* the loop of calculateCodes over sptrs[k..]: st = [code, prevlen, out]
RECURSIVE AssignCodes(_, _, _, _, _)
AssignCodes(sptrs, k, code, prevlen, out) ==
  IF k > Len(sptrs) THEN out
  ELSE LET e == sptrs[k]
           grow == e.length > prevlen
           c1 == IF grow THEN Shl32(code, e.length - prevlen) ELSE code
           p1 == IF grow THEN e.length ELSE prevlen
       IN  AssignCodes(sptrs, k + 1, c1 + 1, p1,
                       Append(out, Symbol(e.s, c1, e.length)))

\* numl, a []uint32 of len maxlen+1, held as its length and its nonzero
\* entries
MakeNuml(sym) ==
  LET ls == {sym[k].length : k \in 1..Len(sym)}
  IN  [len |-> sym[Len(sym)].length + 1,
       cnt |-> [l \in ls |-> Cardinality({k \in 1..Len(sym) : sym[k].length = l})]]

\* numl[i], for 0 <= i < len(numl)
NumlAt(numl, i) == IF i \in DOMAIN numl.cnt THEN numl.cnt[i] ELSE 0

\* codebook.calculateCodes: the sorted table, the histogram, and c with the
\* codes stored through the pointers.  The index sptrs[len(sptrs)-1] panics
\* when no entry has a nonzero length.
CalculateCodes(c) ==
  LET present == {c[k] : k \in {j \in 1..Len(c) : c[j].length # 0}}
      sorted == SortSyms(present)
  IN  IF sorted = <<>> THEN [panic |-> TRUE]
      ELSE LET sym == AssignCodes(sorted, 1, 0, -1, <<>>)
               coded == [k \in 1..Len(c) |->
                          IF c[k].length # 0
                          THEN CHOOSE e \in {sym[j] : j \in 1..Len(sym)} : e.s = c[k].s
                          ELSE c[k]]
           IN  [panic |-> FALSE, sym |-> sym, numl |-> MakeNuml(sym), c |-> coded]

-----------------------------------------------------------------------------
(* container/heap over type nodes *)

Leaf(weight, sym) == [weight |-> weight, leaf |-> TRUE, sym |-> sym]
Inner(weight, c0, c1) == [weight |-> weight, leaf |-> FALSE, child |-> <<c0, c1>>]

\* nodes.Less turned round
NodeLess_Greater(h, i, j) == h[i + 1].weight > h[j + 1].weight

\* nodes.Less on slots i, j
NodeLess(h, i, j) == h[i + 1].weight < h[j + 1].weight

\* nodes.Swap
NodeSwap(h, i, j) == [h EXCEPT ![i + 1] = h[j + 1], ![j + 1] = h[i + 1]]

\* heap.up
RECURSIVE HeapUp(_, _)
HeapUp(h, j) ==
  LET i == IF j = 0 THEN 0 ELSE (j - 1) \div 2
  IN  IF i = j \/ ~NodeLess(h, j, i) THEN h
      ELSE HeapUp(NodeSwap(h, i, j), i)

\* heap.down
RECURSIVE HeapDown(_, _, _)
HeapDown(h, i, n) ==
  LET j1 == 2 * i + 1
  IN  IF j1 >= n THEN h
      ELSE LET j == IF j1 + 1 < n /\ NodeLess(h, j1 + 1, j1) THEN j1 + 1 ELSE j1
           IN  IF ~NodeLess(h, j, i) THEN h
               ELSE HeapDown(NodeSwap(h, i, j), j, n)

\* heap.Push(&n, x)
HeapPush(h, x) == HeapUp(Append(h, x), Len(h))

\* heap.Pop(&n): the popped node and the heap left
HeapPop(h) ==
  LET n == Len(h) - 1
      d == HeapDown(NodeSwap(h, 0, n), 0, n)
  IN  [x |-> d[n + 1], h |-> SubSeq(d, 1, n)]

-----------------------------------------------------------------------------
(* NewEncoder *)

\* for i, v := range counts { if v != 0 { heap.Push(...) } }
RECURSIVE PushLeaves(_, _, _)
PushLeaves(counts, i, h) ==
  IF i >= Len(counts) THEN h
  ELSE PushLeaves(counts, i + 1,
                  IF counts[i + 1] # 0 THEN HeapPush(h, Leaf(counts[i + 1], i)) ELSE h)

\* for n.Len() > 1 { n1, n2 := Pop, Pop; Push(node{n1+n2, {&n2, &n1}}) }
RECURSIVE Merge(_)
Merge(h) ==
  IF Len(h) <= 1 THEN h
  ELSE LET p1 == HeapPop(h)
           p2 == HeapPop(p1.h)
       IN  Merge(HeapPush(p2.h, Inner(p1.x.weight + p2.x.weight, p2.x, p1.x)))

\* walk(n, depth, m)
RECURSIVE Walk(_, _, _)
Walk(n, depth, m) ==
  IF n.leaf THEN [m EXCEPT ![n.sym + 1] = Symbol(n.sym, 0, depth)]
  ELSE Walk(n.child[2], depth + 1, Walk(n.child[1], depth + 1, m))

\* the tree NewEncoder builds
BuildTree(counts) ==
  Merge(HeapPush(PushLeaves(counts, 0, <<>>), Leaf(0, Len(counts))))[1]

\* NewEncoder(counts)
NewEncoder(counts) ==
  LET eof == Len(counts)
      m == Walk(BuildTree(counts), 0, [k \in 1..(eof + 1) |-> ZeroSymbol])
      cc == CalculateCodes(m)
  IN  IF cc.panic THEN [panic |-> TRUE]
      ELSE [panic |-> FALSE, eof |-> eof, m |-> cc.c, sym |-> cc.sym, numl |-> cc.numl]

\* Encoder.SymbolLen: the length, and whether a slot of e.m was read
SymbolLen(e, s) ==
  LET slot == IF s = EOF THEN e.eof ELSE s
  IN  IF ~ULt(slot, Len(e.m)) THEN [found |-> FALSE, slot |-> slot, n |-> 0]
      ELSE [found |-> TRUE, slot |-> slot, n |-> e.m[slot + 1].length]

-----------------------------------------------------------------------------
(* encoding/binary varints, codebook.MarshalBinary / UnmarshalBinary *)

\* binary.PutUvarint
RECURSIVE PutUvarint(_)
PutUvarint(x) ==
  IF x >= 128 THEN <<(x % 128) + 128>> \o PutUvarint(x \div 128) ELSE <<x>>

\* the loop of MarshalBinary: for i := range c { PutUvarint(c[i].length) }
RECURSIVE MarshalLengths(_, _)
MarshalLengths(c, k) ==
  IF k > Len(c) THEN <<>>
  ELSE PutUvarint(c[k].length) \o MarshalLengths(c, k + 1)

\* MarshalBinary with the end-of-input slot left out of the count
MarshalBinary_ShortCount(c) == PutUvarint(Len(c) - 1) \o MarshalLengths(c, 1)

\* codebook.MarshalBinary
MarshalBinary(c) == PutUvarint(Len(c)) \o MarshalLengths(c, 1)

\* Encoder.CodebookBytes
CodebookBytes(e) == MarshalBinary(e.m)

\* a uint64 from its 7-bit groups, least significant first, held as two
\* uint32 patterns
U64(g) ==
  LET G(k) == IF k <= Len(g) THEN g[k] ELSE 0
      lo31 == G(1) + 128 * G(2) + 16384 * G(3) + 2097152 * G(4)
                + 268435456 * (G(5) % 8)
      hi31 == (G(5) \div 16) + 8 * G(6) + 1024 * G(7) + 131072 * G(8)
                + 16777216 * G(9)
  IN  [lo |-> IF (G(5) \div 8) % 2 = 1 THEN TopBit(lo31) ELSE lo31,
       hi |-> IF G(10) = 1 THEN TopBit(hi31) ELSE hi31]

\* binary.ReadUvarint on data from byte pos: i bytes read so far, their
\* groups in g
RECURSIVE ReadUvarint(_, _, _, _)
ReadUvarint(data, pos, i, g) ==
  IF i = 10 THEN [ok |-> FALSE, pos |-> pos]
  ELSE IF pos >= Len(data) THEN [ok |-> FALSE, pos |-> pos]
  ELSE LET b == data[pos + 1]
       IN  IF b < 128
           THEN IF i = 9 /\ b > 1 THEN [ok |-> FALSE, pos |-> pos + 1]
                ELSE [ok |-> TRUE, pos |-> pos + 1, v |-> U64(Append(g, b))]
           ELSE ReadUvarint(data, pos + 1, i + 1, Append(g, b - 128))

\* a uint64 below 2^31 as an integer
Fits(v) == v.hi = 0 /\ v.lo >= 0

\* the loop of UnmarshalBinary: for i := uint32(0); i < uint32(l); i++
RECURSIVE ReadLengths(_, _, _, _, _)
ReadLengths(data, pos, i, n, c) ==
  IF ~ULt(i, n) THEN [err |-> NoErr, c |-> c]
  ELSE LET r == ReadUvarint(data, pos, 0, <<>>)
       IN  IF ~r.ok THEN [err |-> ErrInvalidCodebook, c |-> c]
           ELSE ReadLengths(data, r.pos, i + 1, n, Append(c, Symbol(i, 0, r.v.lo)))

\* codebook.UnmarshalBinary: the error, len(c) as declared (uint64) and the
\* entries the loop stored; every other entry of make(codebook, l) is the
\* zero symbol, of length 0
UnmarshalBinary(data) ==
  LET r == ReadUvarint(data, 0, 0, <<>>)
  IN  IF ~r.ok THEN [err |-> ErrInvalidCodebook]
      ELSE LET rl == ReadLengths(data, r.pos, 0, r.v.lo, <<>>)
           IN  [err |-> rl.err, l |-> r.v, c |-> rl.c]

\* make(codebook, l) of 2^31 entries or more (16 bytes each) can end the
\* program (makeslice: len out of range, or out of memory)
AllocOutcomes(l) == IF Fits(l) THEN {"ok"} ELSE {"ok", "fatal"}

\* NewDecoder(cb), given how the allocation went
NewDecoder(cb, alloc) ==
  LET u == UnmarshalBinary(cb)
  IN  IF u.err # NoErr /\ "l" \notin DOMAIN u THEN [kind |-> "err", err |-> u.err]
      ELSE IF alloc = "fatal" THEN [kind |-> "panic"]
      ELSE IF u.err # NoErr THEN [kind |-> "err", err |-> u.err]
      ELSE LET cc == CalculateCodes(u.c)
           IN  IF cc.panic THEN [kind |-> "panic"]
               ELSE [kind |-> "ok",
                     d |-> [eof |-> Sub32(u.l.lo, 1), numl |-> cc.numl, sym |-> cc.sym]]

\* Encoder.Decoder
EncoderDecoder(e) == [eof |-> e.eof, numl |-> e.numl, sym |-> e.sym]

-----------------------------------------------------------------------------
(* the bit stream (github.com/dgryski/go-bitstream) *)

\* bitstream.NewWriter
NewBitWriter == [b |-> 0, count |-> 8]

\* b | 1<<k on a byte
OrBit(b, k) ==
  IF k >= 8 THEN b
  ELSE IF (b \div Pow2(k)) % 2 = 1 THEN b ELSE b + Pow2(k)

\* BitWriter.WriteBit: st = [w, out, err]; fails is whether the io.Writer
\* below rejects the byte
WriteBit(st, bit, fails) ==
  LET b1 == IF bit = 1 THEN OrBit(st.w.b, (st.w.count + 255) % 256) ELSE st.w.b
      c1 == (st.w.count + 255) % 256
  IN  IF c1 # 0 THEN [w |-> [b |-> b1, count |-> c1], out |-> st.out, err |-> NoErr]
      ELSE IF fails THEN [w |-> [b |-> b1, count |-> 0], out |-> st.out, err |-> ErrSink]
      ELSE [w |-> [b |-> 0, count |-> 8], out |-> Append(st.out, b1), err |-> NoErr]

\* the low nbits bits of u, most significant first
RECURSIVE BitsOf(_, _)
BitsOf(u, nbits) ==
  IF nbits <= 0 THEN <<>> ELSE Append(BitsOf(u \div 2, nbits - 1), u % 2)

\* BitWriter.WriteBits(u, nbits): bit by bit, most significant first, to
\* the first error
RECURSIVE WriteBitSeq(_, _, _, _)
WriteBitSeq(st, bits, k, fails) ==
  IF k > Len(bits) THEN st
  ELSE LET s1 == WriteBit(st, bits[k], fails)
       IN  IF s1.err # NoErr THEN s1 ELSE WriteBitSeq(s1, bits, k + 1, fails)

WriteBits(st, u, nbits, fails) == WriteBitSeq(st, BitsOf(u, nbits), 1, fails)

\* BitWriter.Flush(bit): for b.count != 8 { WriteBit(bit) }.  From a count
\* of 0 (left by a failed Write) or above 8 the loop only counts down to 8:
\* every shift 1<<(count-1) on the way is 0 on a byte, and no byte is due.
RECURSIVE Flush(_, _, _)
Flush(st, bit, fails) ==
  IF st.w.count = 8 THEN st
  ELSE IF st.w.count = 0 \/ st.w.count > 8
  THEN [w |-> [b |-> st.w.b, count |-> 8], out |-> st.out, err |-> NoErr]
  ELSE LET s1 == WriteBit(st, bit, fails)
       IN  IF s1.err # NoErr THEN s1 ELSE Flush(s1, bit, fails)

\* bitstream.NewReader over the bytes data
NewBitReader(data) == [data |-> data, pos |-> 0, b |-> 0, count |-> 0]

\* BitReader.ReadBit
ReadBit(r) ==
  IF r.count = 0 /\ r.pos >= Len(r.data) THEN [err |-> ErrIOEOF, r |-> r]
  ELSE LET b0 == IF r.count = 0 THEN r.data[r.pos + 1] ELSE r.b
           p0 == IF r.count = 0 THEN r.pos + 1 ELSE r.pos
           c0 == IF r.count = 0 THEN 8 ELSE r.count
       IN  [err |-> NoErr, bit |-> b0 \div 128,
            r |-> [data |-> r.data, pos |-> p0, b |-> (2 * b0) % 256, count |-> c0 - 1]]

-----------------------------------------------------------------------------
(* Writer, Decoder *)

\* WriteSymbol refusing the end-of-input slot too (s >= eof)
WriteSymbol_RefuseSlot(e, st, s, fails) ==
  LET slot == IF s = EOF THEN e.eof ELSE s
  IN  IF ~ULt(slot, e.eof)
      THEN [n |-> 0, err |-> ErrUnknownSymbol, slot |-> slot, ioerr |-> NoErr, st |-> st]
      ELSE LET sym == e.m[slot + 1]
               s1 == WriteBits(st, sym.code, sym.length, fails)
           IN  [n |-> sym.length, err |-> NoErr, slot |-> slot, ioerr |-> s1.err, st |-> s1]

\* Writer.WriteSymbol(s) on the stream st = [w, out, err]: what it returns
\* (n, err), the slot it wrote, the error of its bit write (which it drops),
\* and the stream after
WriteSymbol(e, st, s, fails) ==
  LET slot == IF s = EOF THEN e.eof ELSE s
  IN  IF ULt(e.eof, slot)
      THEN [n |-> 0, err |-> ErrUnknownSymbol, slot |-> slot, ioerr |-> NoErr, st |-> st]
      ELSE LET sym == e.m[slot + 1]
               s1 == WriteBits(st, sym.code, sym.length, fails)
           IN  [n |-> sym.length, err |-> NoErr, slot |-> slot, ioerr |-> s1.err, st |-> s1]

\* Close padding with one bits
Close_PadOnes(closed, st, fails) == IF closed THEN st ELSE Flush(st, 1, fails)

\* Writer.Close: closed is never set, so every call flushes
Close(closed, st, fails) == IF closed THEN st ELSE Flush(st, 0, fails)

\* the loop of Decoder.ReadSymbol from iteration i
RECURSIVE ReadSymbolLoop(_, _, _, _, _)
ReadSymbolLoop(d, r, i, offset, code) ==
  IF i >= d.numl.len THEN [kind |-> "err", sym |-> 0, err |-> ErrUnknownSymbol, ioerr |-> NoErr, r |-> r]
  ELSE LET rb == ReadBit(r)
       IN  IF rb.err # NoErr
           THEN [kind |-> "err", sym |-> 0, err |-> rb.err, ioerr |-> rb.err, r |-> rb.r]
           ELSE LET code1 == Dbl32(code) + rb.bit
                    off1 == offset + NumlAt(d.numl, i)
                IN  IF ~ULt(off1, Len(d.sym)) THEN [kind |-> "panic", r |-> rb.r]
                    ELSE LET first == d.sym[off1 + 1].code
                             diff == Sub32(code1, first)
                         IN  IF i + 1 >= d.numl.len THEN [kind |-> "panic", r |-> rb.r]
                             ELSE IF ULt(diff, NumlAt(d.numl, i + 1))
                             THEN IF ~ULt(diff + off1, Len(d.sym))
                                  THEN [kind |-> "panic", r |-> rb.r]
                                  ELSE LET s == d.sym[diff + off1 + 1].s
                                       IN  [kind |-> "ok", err |-> NoErr, ioerr |-> NoErr,
                                            sym |-> IF s = d.eof THEN EOF ELSE s,
                                            r |-> rb.r]
                             ELSE ReadSymbolLoop(d, rb.r, i + 1, off1, code1)

\* ReadSymbol with its loop started at i = 1
ReadSymbol_FromOne(d, r) == ReadSymbolLoop(d, r, 1, 0, 0)

\* ReadSymbol returning the end-of-input slot value as it is stored
ReadSymbol_NoRemap(d, r) ==
  LET x == ReadSymbolLoop(d, r, 0, 0, 0)
  IN  IF x.kind = "ok" /\ x.sym = EOF THEN [x EXCEPT !.sym = d.eof] ELSE x

\* Decoder.ReadSymbol(br)
ReadSymbol(d, r) == ReadSymbolLoop(d, r, 0, 0, 0)


-----------------------------------------------------------------------------
(* the program and its callers *)

VARIABLES
  counts,     \* the counts given to NewEncoder
  cb,         \* the bytes given to NewDecoder
  input,      \* the bytes under the BitReader, when not the Writer's output
  sinkFails,  \* whether the io.Writer under the Writer rejects every Write
  wleft,      \* WriteSymbol calls the caller still makes
  pc,         \* where the caller is
  enc,        \* the *Encoder
  w,          \* the Writer's BitWriter
  closed,     \* Writer.closed
  out,        \* the bytes the io.Writer has taken
  msg,        \* the values passed to WriteSymbol, in order
  closes,     \* Close calls made
  dec,        \* the *Decoder
  dec2,       \* a second *Decoder, from the encoder's codebook bytes
  br,         \* the BitReader of dec
  br2,        \* the BitReader of dec2
  ret,        \* what the last call returned
  ret2,       \* what the last call on dec2 returned
  got         \* the symbols ReadSymbol returned, in order

vars == <<counts, cb, input, sinkFails, wleft, pc, enc, w, closed, out, msg,
          closes, dec, dec2, br, br2, ret, ret2, got>>

NoRet == [op |-> "none"]

\* the counts arrays of at most n entries, each at most c
CountsUpTo(n, c) == UNION {[1..k -> 0..c] : k \in 0..n}

\* the byte strings of at most n bytes over B
BytesUpTo(B, n) == UNION {[1..k -> B] : k \in 0..n}

\* bytes to read: all zeros, all ones, and the two alternations
DataBytes == {0, 85, 170, 255}

\* codebook bytes: small lengths, a continuation byte, and bit 32 of a count
CbBytes == {0, 1, 2, 16, 128}

\* the values a caller passes for a symbol: the slots, one past them, EOF
SymArgs == (0..(Len(counts) + 1)) \cup {EOF}

\* every length in the codebook bytes, as far as they parse, is below 2^31
\* (a larger one asks calculateCodes for a histogram of 8 GiB)
RECURSIVE LengthsFit(_, _, _)
LengthsFit(data, pos, first) ==
  LET r == ReadUvarint(data, pos, 0, <<>>)
  IN  IF ~r.ok THEN TRUE
      ELSE IF first THEN LengthsFit(data, r.pos, FALSE)
      ELSE IF Fits(r.v) THEN LengthsFit(data, r.pos, FALSE) ELSE FALSE

Start ==
  /\ enc = Nil /\ w = NewBitWriter /\ closed = FALSE /\ out = <<>> /\ msg = <<>>
  /\ closes = 0 /\ dec = Nil /\ dec2 = Nil /\ br = Nil /\ br2 = Nil
  /\ ret = NoRet /\ ret2 = NoRet /\ got = <<>>

\* encode and decode over a sound io.Writer
Init ==
  /\ counts \in CountsUpTo(MaxSyms, MaxCount) /\ cb = <<>> /\ input = <<>>
  /\ sinkFails = FALSE /\ wleft = MaxWrites /\ pc = "new" /\ Start

\* the same over an io.Writer that fails
InitIO ==
  /\ counts \in CountsUpTo(MaxSyms, MaxCount) /\ cb = <<>> /\ input = <<>>
  /\ sinkFails = TRUE /\ wleft = MaxWritesIO /\ pc = "new" /\ Start

\* encoders, and both decoders of each over arbitrary bytes
InitBuild ==
  /\ counts \in CountsUpTo(MaxBuildSyms, MaxBuildCount) /\ cb = <<>>
  /\ input \in BytesUpTo(DataBytes, MaxData)
  /\ sinkFails = FALSE /\ wleft = 0 /\ pc = "new" /\ Start

\* decoders from arbitrary codebook bytes over arbitrary bytes
InitCb ==
  /\ counts = <<>> /\ cb \in BytesUpTo(CbBytes, MaxCbLen) /\ LengthsFit(cb, 0, TRUE)
  /\ input \in BytesUpTo(DataBytes, MaxData)
  /\ sinkFails = FALSE /\ wleft = 0 /\ pc = "cb" /\ Start

\* e := NewEncoder(counts)
DoNewEncoder ==
  /\ pc = "new"
  /\ LET e == NewEncoder(counts)
     IN  IF e.panic
         THEN pc' = "panic" /\ enc' = enc /\ ret' = [op |-> "NewEncoder", err |-> "panic"]
         ELSE /\ pc' = "enc" /\ ret' = [op |-> "NewEncoder", err |-> NoErr]
              /\ enc' = [eof |-> e.eof, m |-> e.m, sym |-> e.sym, numl |-> e.numl]
  /\ UNCHANGED <<counts, cb, input, sinkFails, wleft, w, closed, out, msg, closes,
                 dec, dec2, br, br2, ret2, got>>

\* e.SymbolLen(s)
DoSymbolLen(s) ==
  /\ pc = "enc" /\ ret.op = "NewEncoder"
  /\ LET r == SymbolLen(enc, s)
     IN  ret' = [op |-> "SymbolLen", arg |-> s, found |-> r.found, slot |-> r.slot, n |-> r.n]
  /\ UNCHANGED <<counts, cb, input, sinkFails, wleft, pc, enc, w, closed, out, msg,
                 closes, dec, dec2, br, br2, ret2, got>>

\* wr := e.Writer(sink)
DoWriter ==
  /\ pc = "enc" /\ wleft > 0
  /\ pc' = "writing" /\ w' = NewBitWriter /\ closed' = FALSE
  /\ UNCHANGED <<counts, cb, input, sinkFails, wleft, enc, out, msg, closes,
                 dec, dec2, br, br2, ret, ret2, got>>

\* wr.WriteSymbol(s)
DoWriteSymbol(s) ==
  /\ pc = "writing" /\ closes = 0 /\ wleft > 0
  /\ LET r == WriteSymbol(enc, [w |-> w, out |-> out, err |-> NoErr], s, sinkFails)
     IN  /\ w' = r.st.w /\ out' = r.st.out
         /\ ret' = [op |-> "WriteSymbol", arg |-> s, n |-> r.n, err |-> r.err,
                    slot |-> r.slot, ioerr |-> r.ioerr]
         /\ msg' = Append(msg, s)
  /\ wleft' = wleft - 1
  /\ UNCHANGED <<counts, cb, input, sinkFails, pc, enc, closed, closes,
                 dec, dec2, br, br2, ret2, got>>

\* wr.Close()
DoClose ==
  /\ pc = "writing" /\ closes < MaxCloses
  /\ LET st == Close(closed, [w |-> w, out |-> out, err |-> NoErr], sinkFails)
     IN  w' = st.w /\ out' = st.out
  /\ closes' = closes + 1
  /\ ret' = [op |-> "Close"]
  /\ UNCHANGED <<counts, cb, input, sinkFails, wleft, pc, enc, closed, msg,
                 dec, dec2, br, br2, ret2, got>>

\* d := e.Decoder(), to read what the io.Writer took, after the first Close
DoDecoder ==
  /\ pc = "writing" /\ closes = 1
  /\ pc' = "reading" /\ dec' = EncoderDecoder(enc) /\ br' = NewBitReader(out)
  /\ UNCHANGED <<counts, cb, input, sinkFails, wleft, enc, w, closed, out, msg,
                 closes, dec2, br2, ret, ret2, got>>

\* the caller reads until an error or the end-of-input symbol
ReadDone(r) == r.op = "ReadSymbol" /\ (r.err # NoErr \/ r.sym = EOF)

RetOfRead(r) ==
  IF r.kind = "panic" THEN [op |-> "ReadSymbol", kind |-> "panic", sym |-> 0, err |-> "panic", ioerr |-> NoErr]
  ELSE [op |-> "ReadSymbol", kind |-> r.kind, sym |-> r.sym, err |-> r.err, ioerr |-> r.ioerr]

\* d.ReadSymbol(br)
DoReadSymbol ==
  /\ pc = "reading" /\ ~ReadDone(ret)
  /\ LET r == ReadSymbol(dec, br)
     IN  /\ br' = r.r
         /\ ret' = RetOfRead(r)
         /\ pc' = IF r.kind = "panic" THEN "panic" ELSE pc
         /\ got' = IF r.kind = "ok" THEN Append(got, r.sym) ELSE got
  /\ UNCHANGED <<counts, cb, input, sinkFails, wleft, enc, w, closed, out, msg,
                 closes, dec, dec2, br2, ret2>>

\* d := e.Decoder(); d2, _ := NewDecoder(e.CodebookBytes()), both to read input
DoDecoders ==
  /\ pc = "enc" /\ wleft = 0
  /\ \E alloc \in AllocOutcomes(UnmarshalBinary(CodebookBytes(enc)).l) :
       LET nd == NewDecoder(CodebookBytes(enc), alloc)
       IN  IF nd.kind = "ok"
           THEN /\ pc' = "reading" /\ dec' = EncoderDecoder(enc) /\ dec2' = nd.d
                /\ br' = NewBitReader(input) /\ br2' = NewBitReader(input)
                /\ ret' = [op |-> "NewDecoder", err |-> NoErr]
           ELSE /\ pc' = IF nd.kind = "panic" THEN "panic" ELSE "failed"
                /\ ret' = [op |-> "NewDecoder", err |-> IF nd.kind = "err" THEN nd.err ELSE "panic"]
                /\ UNCHANGED <<dec, dec2, br, br2>>
  /\ UNCHANGED <<counts, cb, input, sinkFails, wleft, enc, w, closed, out, msg,
                 closes, ret2, got>>

\* d.ReadSymbol(br) and d2.ReadSymbol(br2)
DoReadBoth ==
  /\ pc = "reading" /\ ~ReadDone(ret)
  /\ LET r == ReadSymbol(dec, br)
         r2 == ReadSymbol(dec2, br2)
     IN  /\ br' = r.r /\ br2' = r2.r
         /\ ret' = RetOfRead(r) /\ ret2' = RetOfRead(r2)
         /\ pc' = IF r.kind = "panic" \/ r2.kind = "panic" THEN "panic" ELSE pc
         /\ got' = IF r.kind = "ok" THEN Append(got, r.sym) ELSE got
  /\ UNCHANGED <<counts, cb, input, sinkFails, wleft, enc, w, closed, out, msg,
                 closes, dec, dec2>>

\* d, err := NewDecoder(cb), to read input
DoNewDecoder ==
  /\ pc = "cb"
  /\ LET u == UnmarshalBinary(cb)
     IN  \E alloc \in (IF "l" \in DOMAIN u THEN AllocOutcomes(u.l) ELSE {"ok"}) :
           LET nd == NewDecoder(cb, alloc)
           IN  IF nd.kind = "ok"
               THEN /\ pc' = "reading" /\ dec' = nd.d /\ br' = NewBitReader(input)
                    /\ ret' = [op |-> "NewDecoder", err |-> NoErr]
               ELSE /\ pc' = IF nd.kind = "panic" THEN "panic" ELSE "failed"
                    /\ ret' = [op |-> "NewDecoder", err |-> IF nd.kind = "err" THEN nd.err ELSE "panic"]
                    /\ UNCHANGED <<dec, br>>
  /\ UNCHANGED <<counts, cb, input, sinkFails, wleft, enc, w, closed, out, msg,
                 closes, dec2, br2, ret2, got>>

-----------------------------------------------------------------------------
(* the properties of the package *)

\* s is a prefix of u
IsPrefix(s, u) == Len(s) <= Len(u) /\ SubSeq(u, 1, Len(s)) = s

\* the bits of the bytes bs, most significant first
RECURSIVE BytesBits(_)
BytesBits(bs) == IF bs = <<>> THEN <<>> ELSE BitsOf(Head(bs), 8) \o BytesBits(Tail(bs))

\* the bits a BitWriter has taken: the bytes passed on, then the pending ones
StreamBits(o, bw) == BytesBits(o) \o SubSeq(BitsOf(bw.b, 8), 1, 8 - bw.count)

\* the code of slot k of e, as bits
CodeBits(e, k) == BitsOf(e.m[k + 1].code, e.m[k + 1].length)

\* the slot a symbol value stands for
SlotOf(e, s) == IF s = EOF THEN e.eof ELSE s

\* the bits the WriteSymbol calls of a message put on the stream
RECURSIVE ExpectedBits(_, _)
ExpectedBits(e, ms) ==
  IF ms = <<>> THEN <<>>
  ELSE (IF ULt(e.eof, SlotOf(e, Head(ms))) THEN <<>> ELSE CodeBits(e, SlotOf(e, Head(ms))))
       \o ExpectedBits(e, Tail(ms))

\* n zero bits
Zeros(n) == [k \in 1..n |-> 0]

\* the encoder exists
EncBuilt == pc \in {"enc", "writing", "reading"}

\* symbols of nonzero count, then one end-of-input sentinel
ValidMsg ==
  /\ Len(msg) >= 1 /\ msg[Len(msg)] = EOF
  /\ \A k \in 1..(Len(msg) - 1) :
       msg[k] \in 0..(Len(counts) - 1) /\ counts[msg[k] + 1] # 0

\* C1: a message of present symbols ended by the sentinel, written, closed and
\* read back through the encoder's decoder, comes back symbol for symbol: no
\* read fails, what was read so far is a prefix of the message, and when the
\* reader stops it has the whole message.
C1_RoundTrip ==
  (ret.op = "ReadSymbol" /\ ValidMsg) =>
     /\ pc = "reading" /\ ret.err = NoErr
     /\ IsPrefix(got, msg)
     /\ (ReadDone(ret) => got = msg)

C1_Witness ==
  /\ pc = "reading" /\ ValidMsg /\ ReadDone(ret) /\ got = msg /\ Len(msg) >= 2
  /\ enc.m[msg[1] + 1].length >= 2

\* C2: the decoder of an encoder and the decoder rebuilt from its codebook
\* bytes hold the same end-of-input slot, histogram and canonical table, and
\* read the same results from the same bytes, leaving the readers alike.
C2_TableEquivalence ==
  (ret.op \in {"NewDecoder", "ReadSymbol"}) =>
     /\ pc = "reading"
     /\ dec2.eof = dec.eof /\ dec2.numl = dec.numl /\ dec2.sym = dec.sym
     /\ br2 = br
     /\ (ret.op = "ReadSymbol" => ret2 = ret)

C2_Witness ==
  /\ pc = "reading" /\ ret.op = "ReadSymbol" /\ ret.kind = "ok" /\ ret2 = ret
  /\ Len(dec2.sym) >= 3 /\ \E k \in 1..Len(counts) : counts[k] = 0

\* C3: no present symbol's code is a bit-prefix of another's.
C3_PrefixFree ==
  EncBuilt =>
    \A i, j \in 0..enc.eof :
      (i # j /\ enc.m[i + 1].length # 0 /\ enc.m[j + 1].length # 0)
        => ~IsPrefix(CodeBits(enc, i), CodeBits(enc, j))

C3_Witness ==
  /\ EncBuilt
  /\ \E i, j \in 0..enc.eof : enc.m[i + 1].length = 1 /\ enc.m[j + 1].length >= 3

\* C4: a symbol counted more often than another present symbol never has the
\* longer code.
C4_LengthOrder ==
  EncBuilt =>
    \A a, b \in 0..(Len(counts) - 1) :
      (counts[a + 1] > counts[b + 1] /\ counts[b + 1] > 0)
        => SymbolLen(enc, a).n <= SymbolLen(enc, b).n

C4_Witness ==
  /\ EncBuilt
  /\ \E a, b \in 0..(Len(counts) - 1) :
       /\ counts[a + 1] > counts[b + 1] /\ counts[b + 1] > 0
       /\ SymbolLen(enc, a).n < SymbolLen(enc, b).n

\* the bits a BitReader still has
RestBits(r) ==
  SubSeq(BitsOf(r.b, 8), 1, r.count) \o BytesBits(SubSeq(r.data, r.pos + 1, Len(r.data)))

\* the next bits of r match no code of d at any length, and r holds more bits
\* than the longest code
NoMatch(d, r) ==
  LET maxlen == d.numl.len - 1
      rest == RestBits(r)
  IN  IF Len(rest) <= maxlen THEN FALSE
      ELSE \A k \in 1..Len(d.sym) :
             BitsOf(d.sym[k].code, d.sym[k].length) # SubSeq(rest, 1, d.sym[k].length)

\* C5: when the bits match no code at any length up to the longest,
\* ReadSymbol returns ErrUnknownSymbol and no symbol, every index in range.
C5_UnknownOnDecode ==
  [][(pc = "reading" /\ ~ReadDone(ret) /\ NoMatch(dec, br) /\ br' # br)
       => (pc' = "reading" /\ ret'.op = "ReadSymbol" /\ ret'.kind = "err"
           /\ ret'.err = ErrUnknownSymbol /\ ret'.sym = 0)]_vars

\* C6: an error of the bit stream comes back from ReadSymbol and from
\* WriteSymbol as it is, with no symbol.
C6_StreamErrors ==
  /\ (ret.op = "WriteSymbol" /\ ret.ioerr # NoErr) => ret.err = ret.ioerr
  /\ (ret.op = "ReadSymbol" /\ ret.kind # "panic" /\ ret.ioerr # NoErr)
       => (ret.err = ret.ioerr /\ ret.sym = 0)

\* C7: WriteSymbol of a value whose slot lies past the end-of-input slot
\* returns (0, ErrUnknownSymbol) and leaves the stream as it was; of any other
\* value it returns the code length and appends that many bits, the code, most
\* significant bit first.
C7_WriteSymbol ==
  [][(pc = "writing" /\ wleft' = wleft - 1) =>
       LET slot == SlotOf(enc, ret'.arg)
       IN  /\ ret'.op = "WriteSymbol"
           /\ IF ULt(enc.eof, slot)
              THEN ret'.n = 0 /\ ret'.err = ErrUnknownSymbol /\ w' = w /\ out' = out
              ELSE /\ ret'.err = NoErr /\ ret'.n = enc.m[slot + 1].length
                   /\ StreamBits(out', w') = StreamBits(out, w) \o CodeBits(enc, slot)]_vars

C7_Witness ==
  /\ pc = "writing" /\ ret.op = "WriteSymbol" /\ ret.err = ErrUnknownSymbol
  /\ ret.arg = enc.eof + 1 /\ w.count < 8 /\ Len(msg) >= 2

\* the bits WriteSymbol reported written
TotalBits == Len(ExpectedBits(enc, msg))

\* C8: after Close the stream is the written bits padded with zeros to whole
\* bytes, ceil(totalBits/8) of them, and a further Close changes nothing.
C8_Close ==
  /\ []((pc = "writing" /\ closes >= 1) =>
          /\ w.count = 8
          /\ Len(out) = (TotalBits + 7) \div 8
          /\ BytesBits(out) = ExpectedBits(enc, msg) \o Zeros(8 * Len(out) - TotalBits))
  /\ [][(pc = "writing" /\ closes >= 1 /\ closes' = closes + 1)
          => (w' = w /\ out' = out /\ closed' = closed)]_vars

C8_Witness ==
  /\ pc = "writing" /\ closes = 2 /\ TotalBits % 8 # 0 /\ Len(out) >= 1
  /\ \E k \in 1..Len(out) : out[k] # 0

\* C9 as stated: only 0xFFFFFFFF makes WriteSymbol write the end-of-input
\* code or SymbolLen answer with the end-of-input slot, and ReadSymbol gives
\* the end-of-input symbol as 0xFFFFFFFF, never as the slot value.
C9_OnlySentinel ==
  /\ (ret.op = "WriteSymbol" /\ ret.err = NoErr /\ ret.slot = enc.eof) => ret.arg = EOF
  /\ (ret.op = "SymbolLen" /\ ret.found /\ ret.slot = enc.eof) => ret.arg = EOF
  /\ (ret.op = "ReadSymbol" /\ ret.kind = "ok") => ret.sym # dec.eof

\* C9 as the code has it: 0xFFFFFFFF and the slot value len(counts) itself
\* are the only values that reach the end-of-input slot, and ReadSymbol gives
\* the end-of-input symbol as 0xFFFFFFFF, never as the slot value.
C9_SentinelOrSlot ==
  /\ (ret.op = "WriteSymbol" /\ ret.err = NoErr /\ ret.slot = enc.eof)
       => ret.arg \in {EOF, Len(counts)}
  /\ (ret.op = "SymbolLen" /\ ret.found /\ ret.slot = enc.eof)
       => ret.arg \in {EOF, Len(counts)}
  /\ (ret.op = "ReadSymbol" /\ ret.kind = "ok") => ret.sym # dec.eof

C9_Witness ==
  /\ pc = "reading" /\ ret.op = "ReadSymbol" /\ ret.kind = "ok" /\ ret.sym = EOF
  /\ Len(msg) >= 1 /\ msg[Len(msg)] = Len(counts)

\* the varints that end within bs
Terminators(bs) == Cardinality({k \in 1..Len(bs) : bs[k] < 128})

\* the count the bytes declare, when its varint ends within them
DeclaredCount(bs) ==
  LET e == CHOOSE k \in 1..Len(bs) : bs[k] < 128 /\ \A j \in 1..(k - 1) : bs[j] >= 128
  IN  U64([k \in 1..e |-> bs[k] % 128])

\* the bytes end before the declared count, or one of the declared number of
\* lengths, has been read in full
Truncated(bs) ==
  IF Terminators(bs) = 0 THEN TRUE
  ELSE IF ~Fits(DeclaredCount(bs)) THEN TRUE
  ELSE Terminators(bs) - 1 < DeclaredCount(bs).lo

\* C10: NewDecoder of truncated codebook bytes returns ErrInvalidCodebook and
\* no Decoder.
C10_TruncatedRejected ==
  (pc # "cb" /\ Truncated(cb)) =>
     (pc = "failed" /\ ret.op = "NewDecoder" /\ ret.err = ErrInvalidCodebook)

Next ==
  \/ DoNewEncoder
  \/ \E s \in SymArgs : DoSymbolLen(s)
  \/ DoWriter
  \/ \E s \in SymArgs : DoWriteSymbol(s)
  \/ DoClose
  \/ DoDecoder
  \/ DoReadSymbol

NextBuild ==
  \/ DoNewEncoder
  \/ \E s \in SymArgs : DoSymbolLen(s)
  \/ DoDecoders
  \/ DoReadBoth

NextCb ==
  \/ DoNewDecoder
  \/ DoReadSymbol

Spec == Init /\ [][Next]_vars

SpecIO == InitIO /\ [][Next]_vars

SpecBuild == InitBuild /\ [][NextBuild]_vars

SpecCodebook == InitCb /\ [][NextCb]_vars

====
